---- MODULE Spec2Model ----
(***************************************************************************)
(* A model of tools/generate_dfg_texture.py: the Hammersley sequence       *)
(* generator, the GGX importance sampler, the height-correlated visibility *)
(* term, the DFG integrator loop and the texel grid driver (main).         *)
(*                                                                         *)
(* Integers of the bit reversal are sets of bit positions (the value is    *)
(* the sum of 2^p over the set), so that no width is assumed that the      *)
(* code does not enforce.  Reals are fixed-point numbers with Scale units  *)
(* to 1.0; products are rounded to the nearest unit, quotients and square  *)
(* roots are rounded down.                                                 *)
(***************************************************************************)
EXTENDS Integers, Sequences, FiniteSets, TLC

\* ------------------------------------------------------------------ bounds
\* hammersley is called with i built from bit positions 0..LowBits-1,
\* 15, 16 and 31-HighBits+1..31, and with 1..MaxHamSamples samples.
LowBits == 5
HighBits == 2
MaxHamSamples == 32

\* calculate_dfg is called with 1..MaxSamples samples.
MaxSamples == 4

\* main is run with -s 1..MaxGridSamples and, when -r is given, with
\* -r 1..MaxResolutionArg.
MaxGridSamples == 2
MaxResolutionArg == 4

\* ------------------------------------------------------- integers as bits
\* The bits of a natural number below 2^31.
BitsOf(m) == {p \in 0..30 : (m \div (2 ^ p)) % 2 = 1}

RECURSIVE IntOf(_)
\* The number a set of bit positions (all below 31) stands for.
IntOf(b) ==
  IF b = {} THEN 0
  ELSE LET p == CHOOSE q \in b : TRUE IN (2 ^ p) + IntOf(b \ {p})

\* x << k, x >> k, x & y, x | y on unbounded non-negative integers.
Shl(b, k) == {p + k : p \in b}
Shr(b, k) == {p - k : p \in {q \in b : q >= k}}
And(b, m) == b \cap m
Or(b, c) == b \cup c

\* A 32-bit hexadecimal literal, given by its eight digits, most
\* significant first: 0x55555555 is Hex(<<5,5,5,5,5,5,5,5>>).
Hex(d) == {p \in 0..31 : (d[8 - (p \div 4)] \div (2 ^ (p % 4))) % 2 = 1}

\* ------------------------------------------------------------- hammersley
\* tof = 0.5 / 0x80000000: a power of two, kept as its exponent.
TofExp == (0 - 1) - (CHOOSE p \in Hex(<<8,0,0,0,0,0,0,0>>) : TRUE)

\* bits = (bits << 16) | numpy.right_shift(bits, 16)
Step1(b) == Or(Shl(b, 16), Shr(b, 16))

\* bits = ((bits & 0x55555555) << 1) | numpy.right_shift(bits & 0xAAAAAAAA, 1)
Step2(b) ==
  Or(Shl(And(b, Hex(<<5,5,5,5,5,5,5,5>>)), 1),
     Shr(And(b, Hex(<<10,10,10,10,10,10,10,10>>)), 1))

\* A slip that shifts without masking first.
Step3_NoMask(b) == Or(Shl(b, 2), Shr(b, 2))

\* bits = ((bits & 0x33333333) << 2) | numpy.right_shift(bits & 0xCCCCCCCC, 2)
Step3(b) ==
  Or(Shl(And(b, Hex(<<3,3,3,3,3,3,3,3>>)), 2),
     Shr(And(b, Hex(<<12,12,12,12,12,12,12,12>>)), 2))

\* A slip that takes the low nibbles for both halves.
Step4_SameMask(b) ==
  Or(Shl(And(b, Hex(<<0,15,0,15,0,15,0,15>>)), 4),
     Shr(And(b, Hex(<<0,15,0,15,0,15,0,15>>)), 4))

\* bits = ((bits & 0x0F0F0F0F) << 4) | numpy.right_shift(bits & 0xF0F0F0F0, 4)
Step4(b) ==
  Or(Shl(And(b, Hex(<<0,15,0,15,0,15,0,15>>)), 4),
     Shr(And(b, Hex(<<15,0,15,0,15,0,15,0>>)), 4))

\* A slip that shifts the bytes by 4 instead of 8.
Step5_Shift4(b) ==
  Or(Shl(And(b, Hex(<<0,0,15,15,0,0,15,15>>)), 4),
     Shr(And(b, Hex(<<15,15,0,0,15,15,0,0>>)), 4))

\* bits = ((bits & 0x00FF00FF) << 8) | numpy.right_shift(bits & 0xFF00FF00, 8)
Step5(b) ==
  Or(Shl(And(b, Hex(<<0,0,15,15,0,0,15,15>>)), 8),
     Shr(And(b, Hex(<<15,15,0,0,15,15,0,0>>)), 8))

\* return (i / float(number_of_samples), bits * tof): u0 is the quotient
\* num/den, u1 the dyadic real whose binary digits are the exponents in it.
HammersleyReturn(i, number_of_samples, b) ==
  [u0 |-> [num |-> i, den |-> number_of_samples],
   u1 |-> {p + TofExp : p \in b}]

\* The whole function, on the bits of i.
Hammersley(i, number_of_samples) ==
  HammersleyReturn(i, number_of_samples, Step5(Step4(Step3(Step2(Step1(i))))))

\* ------------------------------------------------------ fixed-point reals
\* default=64 of --resolution.
DefaultResolution == 64

\* The units to 1.0: the texel centres of the default grid, (s + 0.5)/64 and
\* ((t + 0.5)/64)^2, are whole numbers of units.
Scale == (2 * DefaultResolution) * (2 * DefaultResolution)
One == Scale

Min(x, y) == IF x <= y THEN x ELSE y
Max(x, y) == IF x >= y THEN x ELSE y

\* x * y, rounded to the nearest unit.
FMul(x, y) ==
  ((x \div Scale) * y) + ((((x % Scale) * y) + (Scale \div 2)) \div Scale)

\* x / y for y > 0, rounded down: long division, two digits of base
\* 2 * DefaultResolution after the point.
FDivPos(x, y) ==
  LET base == 2 * DefaultResolution
      q1 == x \div y
      r1 == x % y
      q2 == (r1 * base) \div y
      r2 == (r1 * base) % y
      q3 == (r2 * base) \div y
  IN (((q1 * base) + q2) * base) + q3

\* x / y, rounded down (y is not 0).
FDiv(x, y) == IF y < 0 THEN FDivPos(0 - x, 0 - y) ELSE FDivPos(x, y)

RECURSIVE SqrtSearch(_, _, _)
\* The largest root in lo..hi whose square is at most n.
SqrtSearch(n, lo, hi) ==
  IF lo = hi THEN lo
  ELSE LET mid == (lo + hi + 1) \div 2
       IN IF mid * mid <= n THEN SqrtSearch(n, mid, hi)
          ELSE SqrtSearch(n, lo, mid - 1)

\* math.sqrt(x), rounded down (x is not negative).
FSqrt(x) == SqrtSearch(x * Scale, 0, 46340)

\* math.pi / 2, from 355/113.
HalfPi == ((355 * Scale) + 113) \div 226

\* math.cos and math.sin on [0, pi/2]: the series to the eighth and
\* ninth power.
CosQ(x) ==
  LET x2 == FMul(x, x)
  IN One - (FMul(x2, One - (FMul(x2, One - (FMul(x2, One - (x2 \div 56))
                                            \div 30)) \div 12)) \div 2)

SinQ(x) ==
  LET x2 == FMul(x, x)
  IN FMul(x, One - (FMul(x2, One - (FMul(x2, One - (FMul(x2, One - (x2 \div 72))
                                                   \div 42)) \div 20)) \div 6))

\* phi = 2.0 * math.pi * u[0], kept as its quadrant and the angle within
\* the quadrant, from the exact quotient u[0] = num/den.
Phi(num, den) ==
  [quadrant |-> ((4 * num) \div den) % 4,
   angle |-> (HalfPi * ((4 * num) % den)) \div den]

Cos(phi) ==
  CASE phi.quadrant = 0 -> CosQ(phi.angle)
    [] phi.quadrant = 1 -> 0 - SinQ(phi.angle)
    [] phi.quadrant = 2 -> 0 - CosQ(phi.angle)
    [] OTHER -> SinQ(phi.angle)

Sin(phi) ==
  CASE phi.quadrant = 0 -> SinQ(phi.angle)
    [] phi.quadrant = 1 -> CosQ(phi.angle)
    [] phi.quadrant = 2 -> 0 - SinQ(phi.angle)
    [] OTHER -> 0 - CosQ(phi.angle)

RECURSIVE FixOf(_)
\* The fixed-point value of a dyadic real given by its binary exponents;
\* digits below one unit are dropped.
FixOf(d) ==
  IF d = {} THEN 0
  ELSE LET e == CHOOSE q \in d : TRUE
       IN (IF 0 - e > 30 THEN 0 ELSE Scale \div (2 ^ (0 - e))) + FixOf(d \ {e})

\* A slip that clamps to [0, 1] only from above.
Saturate_NoFloor(value) == Min(value, One)

\* def saturate(value): return min(max(value, 0.0), 1.0)
Saturate(value) == Min(Max(value, 0), One)

\* ------------------------------------------------ sampler and visibility
\* def hemisphere_importance_sample_dggx(u, a)
HemisphereImportanceSampleDggx(u, a) ==
  LET phi == Phi(IntOf(u.u0.num), u.u0.den)
      u1 == FixOf(u.u1)
      cos_theta2 == FDiv(One - u1, One + FMul(a + One, FMul(a - One, u1)))
      cos_theta == FSqrt(cos_theta2)
      sin_theta == FSqrt(One - cos_theta2)
  IN <<FMul(sin_theta, Cos(phi)), FMul(sin_theta, Sin(phi)), cos_theta>>

\* def visibility(nov, nol, a)
Visibility(nov_, nol_, a_) ==
  LET a2 == FMul(a_, a_)
      ggxl == FMul(nov_, FSqrt(FMul(nol_ - FMul(nol_, a2), nol_) + a2))
      ggxv == FMul(nol_, FSqrt(FMul(nov_ - FMul(nov_, a2), nov_) + a2))
  IN FDiv(One \div 2, ggxv + ggxl)

\* numpy.dot(v, h)
Dot(x, y) == FMul(x[1], y[1]) + FMul(x[2], y[2]) + FMul(x[3], y[3])

\* l = 2.0 * numpy.multiply(numpy.dot(v, h), h) - v
Reflect(v_, h_) ==
  LET d == Dot(v_, h_)
  IN <<(2 * FMul(d, h_[1])) - v_[1],
       (2 * FMul(d, h_[2])) - v_[2],
       (2 * FMul(d, h_[3])) - v_[3]>>

\* A slip in the index: noh from h[0].
Cosines_WrongIndex(v_, h_, l_) ==
  [voh |-> Saturate(Dot(v_, h_)),
   nol |-> Saturate(l_[3]),
   noh |-> Saturate(h_[1])]

\* voh = saturate(numpy.dot(v, h)); nol = saturate(l[2]); noh = saturate(h[2])
Cosines(v_, h_, l_) ==
  [voh |-> Saturate(Dot(v_, h_)),
   nol |-> Saturate(l_[3]),
   noh |-> Saturate(h_[3])]

\* A slip that lets a sample on the horizon through.
GuardPasses_Geq(nol_) == nol_ >= 0

\* if nol > 0.0:
GuardPasses(nol_) == nol_ > 0

\* vis = visibility(nov, nol, a) * nol * (voh / noh)
VisTerm(nov_, nol_, a_, voh_, noh_) ==
  FMul(FMul(Visibility(nov_, nol_, a_), nol_), FDiv(voh_, noh_))

\* A slip in the sign of the Fresnel residual.
Fc_Plus(voh_) ==
  LET x == One + voh_
      x2 == FMul(x, x)
  IN FMul(FMul(x2, x2), x)

\* fc = (1.0 - voh)**5.0
Fc(voh_) ==
  LET x == One - voh_
      x2 == FMul(x, x)
  IN FMul(FMul(x2, x2), x)

\* r[0] += vis * fc; r[1] += vis
Accumulated(r_, vis, fc) == <<r_[1] + FMul(vis, fc), r_[2] + vis>>

\* return numpy.multiply(r, 4.0 / float(number_of_samples))
Normalized(r_, number_of_samples) ==
  LET k == FDiv(4 * One, number_of_samples * One)
  IN <<FMul(r_[1], k), FMul(r_[2], k)>>

\* v = (math.sqrt(1.0 - nov * nov), 0.0, nov)
ViewVector(nov_) == <<FSqrt(One - FMul(nov_, nov_)), 0, nov_>>

\* Lines 80 to 86 for sample i: u, h, l and the three clamped cosines.
SampleOf(v_, a_, i_, number_of_samples) ==
  LET u_ == Hammersley(BitsOf(i_), number_of_samples)
      h_ == HemisphereImportanceSampleDggx(u_, a_)
      l_ == Reflect(v_, h_)
      c == Cosines(v_, h_, l_)
  IN [u |-> u_, h |-> h_, l |-> l_, voh |-> c.voh, nol |-> c.nol, noh |-> c.noh]

RECURSIVE DfgLoop(_, _, _, _, _, _)
\* for i in range(number_of_samples): ... (lines 79 to 92), from index i_
\* with accumulators r_.
DfgLoop(nov_, a_, n_, v_, i_, r_) ==
  IF i_ >= n_ THEN r_
  ELSE LET smp == SampleOf(v_, a_, i_, n_)
       IN DfgLoop(nov_, a_, n_, v_, i_ + 1,
                  IF GuardPasses(smp.nol)
                  THEN Accumulated(r_, VisTerm(nov_, smp.nol, a_, smp.voh, smp.noh),
                                   Fc(smp.voh))
                  ELSE r_)

\* def calculate_dfg(nov, a, number_of_samples), as main calls it.
CalculateDfg(nov_, a_, n_) ==
  Normalized(DfgLoop(nov_, a_, n_, ViewVector(nov_), 0, <<0, 0>>), n_)

\* ----------------------------------------------------------- serializing
RECURSIVE Log2Floor(_)
\* The position of the highest bit of m >= 1.
Log2Floor(m) == IF m < 2 THEN 0 ELSE 1 + Log2Floor(m \div 2)

\* n / d rounded to the nearest integer, halves to the even one.
RoundHalfEven(n, d) ==
  LET q == n \div d
      rem == n % d
  IN IF 2 * rem > d \/ (2 * rem = d /\ q % 2 = 1) THEN q + 1 ELSE q

\* The IEEE half-precision bit pattern of x (dtype=numpy.float16): sign,
\* five exponent bits biased by 15, ten mantissa bits.  One unit is
\* 2^-14, the smallest normal half, so no x is subnormal.
Float16Bits(x) ==
  IF x = 0 THEN 0
  ELSE LET sign == IF x < 0 THEN 32768 ELSE 0
           m == IF x < 0 THEN 0 - x ELSE x
           top == Log2Floor(m)
           frac == m - (2 ^ top)
           mant == IF top <= 10 THEN frac * (2 ^ (10 - top))
                   ELSE RoundHalfEven(frac, 2 ^ (top - 10))
           biased == (top - Log2Floor(Scale)) + 15
           pattern == (biased * 1024) + mant
       IN sign + (IF pattern >= 31 * 1024 THEN 31 * 1024 ELSE pattern)

\* .tobytes() of one half: little-endian.
Float16Bytes(x) == <<Float16Bits(x) % 256, Float16Bits(x) \div 256>>

\* def write_dfg(fp, dfg, file_format): the bytes written.
WriteDfg(dfg, file_format) ==
  IF file_format = "raw"
  THEN Float16Bytes(dfg[1]) \o Float16Bytes(dfg[2])
  ELSE <<(Saturate(dfg[1]) * 255) \div Scale, (Saturate(dfg[2]) * 255) \div Scale, 0>>

RECURSIVE Decimal(_)
\* The characters of a natural number in decimal.
Decimal(n) ==
  IF n < 10 THEN <<48 + n>> ELSE Append(Decimal(n \div 10), 48 + (n % 10))

\* f'P6\n{args.resolution} {args.resolution}\n255\n'.encode()
PpmHeader(resolution_) ==
  <<80, 54, 10>> \o Decimal(resolution_.value) \o <<32>>
    \o Decimal(resolution_.value) \o <<10, 50, 53, 53, 10>>

\* nov = (s + 0.5) / float(args.resolution)
TexelNov(s_, resolution_) ==
  FDiv((s_ * One) + (One \div 2), resolution_ * One)

\* perceptual_roughness = (t + 0.5) / float(args.resolution)
\* a = perceptual_roughness**2
TexelA(t_, resolution_) ==
  LET perceptual_roughness == FDiv((t_ * One) + (One \div 2), resolution_ * One)
  IN FMul(perceptual_roughness, perceptual_roughness)

VARIABLES
  ham_i,     \* hammersley: the argument i, as its bits
  ham_n,     \* hammersley: the argument number_of_samples
  bits,      \* hammersley: the local bits
  ham_pc,    \* hammersley: the shift/OR steps done (0..5), 6 once returned
  ham_ret,   \* hammersley: the returned pair, "none" before the return
  nov,       \* calculate_dfg: the argument nov
  a,         \* calculate_dfg: the argument a
  number_of_samples,  \* calculate_dfg: the argument number_of_samples
  v,         \* calculate_dfg: the view vector
  r,         \* calculate_dfg: the two accumulators
  i,         \* calculate_dfg: the next index of range(number_of_samples)
  u,         \* calculate_dfg: the sample point of this iteration
  h,         \* calculate_dfg: the half vector of this iteration
  l,         \* calculate_dfg: the light vector of this iteration
  voh,       \* calculate_dfg: saturate(dot(v, h))
  nol,       \* calculate_dfg: saturate(l[2])
  noh,       \* calculate_dfg: saturate(h[2])
  pc,        \* calculate_dfg: "call", "loop", "guard", "done" or "raised"
  ret,       \* calculate_dfg: the returned pair
  exc,       \* calculate_dfg: the exception raised
  visCalls,  \* history: the arguments of every call of visibility
  visited,   \* history: the sample indices processed, in order
  resolution,   \* main: args.resolution, an int (the default) or a str (-r)
  samples,      \* main: args.samples
  file_format,  \* main: args.file_format
  main_pc,      \* main: "start", "rows", "texel", "done" or "raised"
  t,            \* main: the row
  s,            \* main: the column
  fp,           \* main: the bytes of the output file
  main_exc,     \* main: the exception raised
  calls         \* history: the texel and arguments of every call of calculate_dfg

hamVars == <<ham_i, ham_n, bits, ham_pc, ham_ret>>

dfgArgs == <<nov, a, number_of_samples>>

dfgLocals == <<u, h, l, voh, nol, noh>>

dfgVars ==
  <<nov, a, number_of_samples, v, r, i, u, h, l, voh, nol, noh, pc, ret, exc,
    visCalls, visited>>

mainVars ==
  <<resolution, samples, file_format, main_pc, t, s, fp, main_exc, calls>>

vars == <<hamVars, dfgVars, mainVars>>

\* ------------------------------------------------- hammersley, by steps
\* The bit positions the arguments i are built from.
InputBitPositions ==
  (0..(LowBits - 1)) \cup {15, 16} \cup {31 - k : k \in 0..(HighBits - 1)}

HamStep1 ==
  /\ ham_pc = 0
  /\ bits' = Step1(bits)
  /\ ham_pc' = 1
  /\ UNCHANGED <<ham_i, ham_n, ham_ret, dfgVars, mainVars>>

HamStep2 ==
  /\ ham_pc = 1
  /\ bits' = Step2(bits)
  /\ ham_pc' = 2
  /\ UNCHANGED <<ham_i, ham_n, ham_ret, dfgVars, mainVars>>

HamStep3 ==
  /\ ham_pc = 2
  /\ bits' = Step3(bits)
  /\ ham_pc' = 3
  /\ UNCHANGED <<ham_i, ham_n, ham_ret, dfgVars, mainVars>>

HamStep4 ==
  /\ ham_pc = 3
  /\ bits' = Step4(bits)
  /\ ham_pc' = 4
  /\ UNCHANGED <<ham_i, ham_n, ham_ret, dfgVars, mainVars>>

HamStep5 ==
  /\ ham_pc = 4
  /\ bits' = Step5(bits)
  /\ ham_pc' = 5
  /\ UNCHANGED <<ham_i, ham_n, ham_ret, dfgVars, mainVars>>

HamReturn ==
  /\ ham_pc = 5
  /\ ham_ret' = HammersleyReturn(ham_i, ham_n, bits)
  /\ ham_pc' = 6
  /\ UNCHANGED <<ham_i, ham_n, bits, dfgVars, mainVars>>

HamNext ==
  \/ HamStep1
  \/ HamStep2
  \/ HamStep3
  \/ HamStep4
  \/ HamStep5
  \/ HamReturn

\* ---------------------------------------------- calculate_dfg, by steps
\* The arguments calculate_dfg is called with: the texel centres of a
\* 4 x 4 grid, the ends 1.0, and two values of nov outside [0, 1].
NovInputs == {(k * One) \div 8 : k \in {0 - 1, 1, 3, 5, 7, 8, 9}}

AInputs == {(((2 * k) + 1) * ((2 * k) + 1) * One) \div 64 : k \in 0..3} \cup {One}

\* A slip that keeps the sums of the call before.
InitialR_Stale == r

\* r = [0.0, 0.0]
InitialR == <<0, 0>>

\* A fresh frame: nothing of the function body has run.
DfgFrame ==
  /\ v' = "none"
  /\ i' = 0
  /\ u' = "none"
  /\ h' = "none"
  /\ l' = "none"
  /\ voh' = "none"
  /\ nol' = "none"
  /\ noh' = "none"
  /\ ret' = "none"
  /\ exc' = "none"
  /\ visCalls' = <<>>
  /\ visited' = <<>>

\* Lines 72 to 78: math.sqrt raises ValueError on a negative argument.
DfgEnter ==
  /\ pc = "call"
  /\ IF One - FMul(nov, nov) < 0
     THEN /\ pc' = "raised"
          /\ exc' = "ValueError"
          /\ UNCHANGED <<v, r, i>>
     ELSE /\ v' = ViewVector(nov)
          /\ r' = InitialR
          /\ i' = 0
          /\ pc' = "loop"
          /\ UNCHANGED exc
  /\ UNCHANGED <<dfgArgs, dfgLocals, ret, visCalls, visited, hamVars, mainVars>>

\* Lines 79 to 86: the next sample.
DfgSample ==
  /\ pc = "loop"
  /\ i < number_of_samples
  /\ LET smp == SampleOf(v, a, i, number_of_samples)
     IN /\ u' = smp.u
        /\ h' = smp.h
        /\ l' = smp.l
        /\ voh' = smp.voh
        /\ nol' = smp.nol
        /\ noh' = smp.noh
  /\ visited' = Append(visited, i)
  /\ pc' = "guard"
  /\ UNCHANGED <<dfgArgs, v, r, i, ret, exc, visCalls, hamVars, mainVars>>

\* Lines 88 to 92: the sample is above the horizon.
DfgAccumulate ==
  /\ pc = "guard"
  /\ GuardPasses(nol)
  /\ r' = Accumulated(r, VisTerm(nov, nol, a, voh, noh), Fc(voh))
  /\ visCalls' = Append(visCalls, [nov |-> nov, nol |-> nol, a |-> a])
  /\ i' = i + 1
  /\ pc' = "loop"
  /\ UNCHANGED <<dfgArgs, v, dfgLocals, ret, exc, visited, hamVars, mainVars>>

\* Line 88: the sample is not above the horizon.
DfgSkip ==
  /\ pc = "guard"
  /\ ~GuardPasses(nol)
  /\ i' = i + 1
  /\ pc' = "loop"
  /\ UNCHANGED <<dfgArgs, v, r, dfgLocals, ret, exc, visCalls, visited, hamVars, mainVars>>

\* Line 94: the loop is over.
DfgReturn ==
  /\ pc = "loop"
  /\ i = number_of_samples
  /\ ret' = Normalized(r, number_of_samples)
  /\ pc' = "done"
  /\ UNCHANGED <<dfgArgs, v, r, i, dfgLocals, exc, visCalls, visited, hamVars, mainVars>>

\* The next call of calculate_dfg, once the last one has returned or raised.
DfgCall ==
  /\ pc \in {"done", "raised"}
  /\ nov' \in NovInputs
  /\ a' \in AInputs
  /\ number_of_samples' \in 1..MaxSamples
  /\ DfgFrame
  /\ pc' = "call"
  /\ UNCHANGED <<r, hamVars, mainVars>>

DfgNext ==
  \/ DfgEnter
  \/ DfgSample
  \/ DfgAccumulate
  \/ DfgSkip
  \/ DfgReturn
  \/ DfgCall

\* ------------------------------------------------------------------ main
\* What parse_args leaves in args.resolution: the default, an int, or the
\* text after -r, a str (the option declares no type).
ResolutionArgs ==
  {[type |-> "int", value |-> DefaultResolution]}
    \cup {[type |-> "str", value |-> k] : k \in 1..MaxResolutionArg}

\* Lines 135 to 137: open(args.output, 'wb') and the header of a ppm.
MainOpen ==
  /\ main_pc = "start"
  /\ fp' = IF file_format = "ppm" THEN PpmHeader(resolution) ELSE <<>>
  /\ main_pc' = "rows"
  /\ UNCHANGED <<resolution, samples, file_format, t, s, main_exc, calls,
                 hamVars, dfgVars>>

\* Line 138: range(args.resolution) raises TypeError on a str; the with
\* statement closes the file as the exception leaves it.
MainRows ==
  /\ main_pc = "rows"
  /\ IF resolution.type = "int"
     THEN /\ main_pc' = "texel"
          /\ UNCHANGED main_exc
     ELSE /\ main_pc' = "raised"
          /\ main_exc' = "TypeError"
  /\ UNCHANGED <<resolution, samples, file_format, t, s, fp, calls,
                 hamVars, dfgVars>>

\* Lines 139 to 144: one texel, and the step of the two loops.
MainTexel ==
  /\ main_pc = "texel"
  /\ t < resolution.value
  /\ LET nov_ == TexelNov(s, resolution.value)
         a_ == TexelA(t, resolution.value)
         dfg == CalculateDfg(nov_, a_, samples)
     IN /\ fp' = fp \o WriteDfg(dfg, file_format)
        /\ calls' = Append(calls, [t |-> t, s |-> s, nov |-> nov_, a |-> a_])
  /\ IF s + 1 < resolution.value
     THEN /\ s' = s + 1
          /\ UNCHANGED t
     ELSE /\ s' = 0
          /\ t' = t + 1
  /\ UNCHANGED <<resolution, samples, file_format, main_pc, main_exc,
                 hamVars, dfgVars>>

\* The rows are exhausted: the with statement closes the file.
MainExit ==
  /\ main_pc = "texel"
  /\ t = resolution.value
  /\ main_pc' = "done"
  /\ UNCHANGED <<resolution, samples, file_format, t, s, fp, main_exc, calls,
                 hamVars, dfgVars>>

MainNext ==
  \/ MainOpen
  \/ MainRows
  \/ MainTexel
  \/ MainExit

\* --------------------------------------------------------- specifications
\* hammersley alone, on arguments drawn from the bounded sets.
HamInit ==
  /\ ham_i \in SUBSET InputBitPositions
  /\ ham_n \in 1..MaxHamSamples
  /\ bits = ham_i
  /\ ham_pc = 0
  /\ ham_ret = "none"
  /\ nov = One
  /\ a = One
  /\ number_of_samples = 1
  /\ v = "none"
  /\ r = <<0, 0>>
  /\ i = 0
  /\ u = "none"
  /\ h = "none"
  /\ l = "none"
  /\ voh = "none"
  /\ nol = "none"
  /\ noh = "none"
  /\ pc = "idle"
  /\ ret = "none"
  /\ exc = "none"
  /\ visCalls = <<>>
  /\ visited = <<>>
  /\ resolution = [type |-> "int", value |-> DefaultResolution]
  /\ samples = 1
  /\ file_format = "raw"
  /\ main_pc = "idle"
  /\ t = 0
  /\ s = 0
  /\ fp = <<>>
  /\ main_exc = "none"
  /\ calls = <<>>

SpecHammersley == HamInit /\ [][HamNext]_vars

\* calculate_dfg alone, called again and again on arguments drawn from
\* the bounded sets.
DfgInit ==
  /\ ham_i = {}
  /\ ham_n = 1
  /\ bits = {}
  /\ ham_pc = 6
  /\ ham_ret = "none"
  /\ nov \in NovInputs
  /\ a \in AInputs
  /\ number_of_samples \in 1..MaxSamples
  /\ v = "none"
  /\ r = <<0, 0>>
  /\ i = 0
  /\ u = "none"
  /\ h = "none"
  /\ l = "none"
  /\ voh = "none"
  /\ nol = "none"
  /\ noh = "none"
  /\ pc = "call"
  /\ ret = "none"
  /\ exc = "none"
  /\ visCalls = <<>>
  /\ visited = <<>>
  /\ resolution = [type |-> "int", value |-> DefaultResolution]
  /\ samples = 1
  /\ file_format = "raw"
  /\ main_pc = "idle"
  /\ t = 0
  /\ s = 0
  /\ fp = <<>>
  /\ main_exc = "none"
  /\ calls = <<>>

SpecDfg == DfgInit /\ [][DfgNext]_vars

\* The program: main, on the command lines of the bounded sets.
Init ==
  /\ ham_i = {}
  /\ ham_n = 1
  /\ bits = {}
  /\ ham_pc = 6
  /\ ham_ret = "none"
  /\ nov = One
  /\ a = One
  /\ number_of_samples = 1
  /\ v = "none"
  /\ r = <<0, 0>>
  /\ i = 0
  /\ u = "none"
  /\ h = "none"
  /\ l = "none"
  /\ voh = "none"
  /\ nol = "none"
  /\ noh = "none"
  /\ pc = "idle"
  /\ ret = "none"
  /\ exc = "none"
  /\ visCalls = <<>>
  /\ visited = <<>>
  /\ resolution \in ResolutionArgs
  /\ samples \in 1..MaxGridSamples
  /\ file_format \in {"raw", "ppm"}
  /\ main_pc = "start"
  /\ t = 0
  /\ s = 0
  /\ fp = <<>>
  /\ main_exc = "none"
  /\ calls = <<>>

Next == MainNext

Spec == Init /\ [][Next]_vars

\* ----------------------------------------------------------------- claims
\* The arguments within the contract of calculate_dfg: nov and a in (0, 1].
InDomain == nov \in 1..One /\ a \in 1..One

\* The integer whose 32 bits are those of b in reverse order.
Rev32(b) == {31 - k : k \in b}

IsPow2(n) == \E k \in 0..30 : n = 2 ^ k

\* C1: hammersley(i, N) returns u0 = i/N and u1 = rev32(i) / 2^32, for
\* every i below 2^32 and every N >= 1.
C1_HammersleyPoint ==
  ham_pc = 6 =>
    /\ ham_ret.u0 = [num |-> ham_i, den |-> ham_n]
    /\ ham_ret.u1 = {p - 32 : p \in Rev32(ham_i)}

C1_Witness ==
  /\ ham_pc = 6
  /\ ham_i = {0, 1, 16, 31}
  /\ ham_ret.u1 = {0 - 32, 0 - 17, 0 - 2, 0 - 1}

\* C2: for N a power of two, the u1 of i = 0 .. N-1 are pairwise distinct
\* and u1 * N runs over exactly 0 .. N-1.
C2_Permutation ==
  (ham_pc = 6 /\ IsPow2(ham_n) /\ ham_i \subseteq 0..30 /\ IntOf(ham_i) < ham_n) =>
    LET k == Log2Floor(ham_n)
        TimesN(x) == {e + k : e \in x}
        points == {TimesN(Hammersley(BitsOf(j), ham_n).u1) : j \in 0..(ham_n - 1)}
        whole == {BitsOf(m) : m \in 0..(ham_n - 1)}
    IN /\ TimesN(ham_ret.u1) \in whole
       /\ points = whole
       /\ \A j \in 0..(ham_n - 1) :
            j # IntOf(ham_i) => Hammersley(BitsOf(j), ham_n).u1 # ham_ret.u1

C2_Witness ==
  /\ ham_pc = 6
  /\ ham_n = 16
  /\ ham_i = {0, 2}
  /\ ham_ret.u1 = {0 - 1, 0 - 3}

\* C7 as stated: after each of the five shift/OR steps the value of bits
\* lies in [0, 2^32).
C7_Original == ham_pc \in 1..5 => bits \subseteq 0..31

\* C7 as amended: after each of steps 2 to 5 bits lies in [0, 2^32); after
\* step 1 it lies in [0, 2^48), its low 32 bits are i with its 16-bit halves
\* swapped, and it lies in [0, 2^32) when i < 2^16.
C7_Amended ==
  /\ ham_pc \in 2..5 => bits \subseteq 0..31
  /\ ham_pc = 1 =>
       /\ bits \subseteq 0..47
       /\ bits \cap (0..31) =
            {p + 16 : p \in ham_i \cap (0..15)} \cup {p - 16 : p \in ham_i \cap (16..31)}
       /\ (ham_i \subseteq 0..15 => bits \subseteq 0..31)

C7_Witness ==
  /\ ham_pc = 1
  /\ ham_i = {0, 16, 31}
  /\ bits = {0, 15, 16, 32, 47}

\* C3: visibility is invoked only for a sample with nol > 0, and an
\* iteration with nol <= 0 leaves both accumulators as they were.
C3_GuardedVisibility ==
  [][/\ Len(visCalls') > Len(visCalls) =>
          /\ pc = "guard"
          /\ nol > 0
          /\ visCalls'[Len(visCalls')].nol = nol
     /\ (pc = "guard" /\ nol <= 0) => (r' = r /\ visCalls' = visCalls)]_vars

C3_Witness ==
  /\ pc = "loop"
  /\ i = 3
  /\ Len(visCalls) = 1
  /\ r[2] > 0
  /\ nol = 0

\* The k-th term of the sum of channel 2: visibility * nol * (voh / noh).
C4_Term1(k) ==
  LET smp == SampleOf(ViewVector(nov), a, k, number_of_samples)
  IN IF smp.nol > 0
     THEN FMul(FMul(Visibility(nov, smp.nol, a), smp.nol), FDiv(smp.voh, smp.noh))
     ELSE 0

\* The k-th term of the sum of channel 1: that term times (1 - voh)^5.
C4_Term0(k) ==
  LET smp == SampleOf(ViewVector(nov), a, k, number_of_samples)
      x == One - smp.voh
  IN FMul(C4_Term1(k), FMul(FMul(FMul(x, x), FMul(x, x)), x))

RECURSIVE C4_Sum0(_)
C4_Sum0(k) == IF k = 0 THEN 0 ELSE C4_Sum0(k - 1) + C4_Term0(k - 1)

RECURSIVE C4_Sum1(_)
C4_Sum1(k) == IF k = 0 THEN 0 ELSE C4_Sum1(k - 1) + C4_Term1(k - 1)

C8_Original ==
  /\ pc = "guard" => (voh \in 0..One /\ nol \in 0..One /\ noh \in 0..One)
  /\ \A k \in 1..Len(visCalls) :
       visCalls[k].nov \in 0..One /\ visCalls[k].nol \in 0..One

\* C8 as amended: voh, nol and noh have been clamped to [0, 1]; nov reaches
\* visibility as it was passed, unclamped.
C8_Amended ==
  /\ pc = "guard" => (voh \in 0..One /\ nol \in 0..One /\ noh \in 0..One)
  /\ \A k \in 1..Len(visCalls) :
       visCalls[k].nov = nov /\ visCalls[k].nol \in 1..One

C8_Witness ==
  /\ pc = "loop"
  /\ nov < 0
  /\ Len(visCalls) = 1
  /\ visCalls[1].nov = nov
  /\ Dot(v, h) < 0
  /\ voh = 0

\* C9: with nov and a in (0, 1], a sample that passes the guard nol > 0
\* has noh > 0, and a half vector with h.z = 0 has l.z <= 0.
C9_NohPositive ==
  (pc = "guard" /\ InDomain) =>
    /\ nol > 0 => noh > 0
    /\ h[3] = 0 => l[3] <= 0

C9_Witness ==
  /\ pc = "guard"
  /\ InDomain
  /\ nol > 0
  /\ noh > 0
  /\ noh < One

\* C10: with nov and a in (0, 1], 0 <= r[0] <= r[1] after every iteration,
\* no iteration lowers an accumulator, and 0 <= dfg1 <= dfg2 is returned.
C10_Monotone ==
  [][InDomain =>
       /\ pc' \in {"loop", "guard", "done"} => (0 <= r'[1] /\ r'[1] <= r'[2])
       /\ pc = "guard" => (r[1] <= r'[1] /\ r[2] <= r'[2])
       /\ pc' = "done" => (0 <= ret'[1] /\ ret'[1] <= ret'[2])]_vars

C10_Witness ==
  /\ pc = "done"
  /\ InDomain
  /\ 0 < ret[1]
  /\ ret[1] < ret[2]

\* C5: for the resolution R asked for, default or -r, the driver calls
\* calculate_dfg once per texel, row by row, with nov = (s + 0.5)/R and
\* a = ((t + 0.5)/R)^2, both strictly between 0 and 1.
C5_EveryTexelOnce ==
  main_pc \in {"done", "raised"} =>
    /\ Len(calls) = resolution.value * resolution.value
    /\ \A k \in 1..Len(calls) :
         /\ calls[k].t = (k - 1) \div resolution.value
         /\ calls[k].s = (k - 1) % resolution.value
         /\ calls[k].nov * (2 * resolution.value) = ((2 * calls[k].s) + 1) * One
         /\ calls[k].a * (4 * resolution.value * resolution.value)
              = ((2 * calls[k].t) + 1) * ((2 * calls[k].t) + 1) * One
         /\ calls[k].nov \in 1..(One - 1)
         /\ calls[k].a \in 1..(One - 1)

\* C6: for the resolution R asked for, default or -r, a raw run ends with
\* a file of exactly 4 * R * R bytes and no header: the texels row by row,
\* each the two half floats of dfg1 and dfg2.
C6_RawFile ==
  (main_pc \in {"done", "raised"} /\ file_format = "raw") =>
    /\ Len(fp) = 4 * resolution.value * resolution.value
    /\ Len(calls) = resolution.value * resolution.value
    /\ \A k \in 1..Len(calls) :
         /\ calls[k].t = (k - 1) \div resolution.value
         /\ calls[k].s = (k - 1) % resolution.value
         /\ SubSeq(fp, (4 * k) - 3, 4 * k) =
              LET dfg == CalculateDfg(calls[k].nov, calls[k].a, samples)
              IN Float16Bytes(dfg[1]) \o Float16Bytes(dfg[2])

====
